---- MODULE Spec2Model ----
(***************************************************************************)
(* Model of the render-process half of the always-on-top overlay           *)
(* (src/alwaysontop/render.js, class AlwaysOnTop).                         *)
(*                                                                         *)
(* The renderer's handlers are the actions.  The main-process half and the *)
(* overlay's own script are not part of the source file; the little of     *)
(* them the handlers depend on (window creation with the last position     *)
(* received, the new-window message, the should-close request, the         *)
(* overlay's calls into window.alwaysOnTop) is modelled from the           *)
(* specification and kept in the definitions whose names start with Main   *)
(* or Overlay/Platform.  Messages between the two processes are delivered  *)
(* in the order they were sent.                                            *)
(***************************************************************************)
EXTENDS Integers, Sequences, FiniteSets, TLC

VARIABLES
    inConference,   \* the engine is between videoConferenceJoined and ...Left
    apiConfL,       \* api 'videoConferenceJoined' / 'videoConferenceLeft' listeners
    observing,      \* the IntersectionObserver observes the iframe
    blurL,          \* 'blur'  listeners of the primary window (_openAlwaysOnTopWindow)
    focusL,         \* 'focus' listeners of the primary window (_closeAlwaysOnTopWindow)
    closeL,         \* 'close' listeners of the primary window (_closeAlwaysOnTopWindow)
    ipcL,           \* ipcRenderer 'jitsi-always-on-top' listeners (_onMessageReceived)
    apiLVC,         \* api 'largeVideoChanged' listeners (_updateLargeVideoSrc)
    aotWindow,      \* this._alwaysOnTopWindow: NoWindow or the window opened
    aotBW,          \* this._alwaysOnTopBrowserWindow: NoWindow or a handle
    storage,        \* localStorage items jitsi-always-on-top-x / -y
    windows,        \* the overlay windows the window manager has created
    nextId,         \* number of windows created so far (ids are 1..nextId)
    toRenderer,     \* new-window messages in flight to the renderer
    shouldClosePending, \* a should-close request in flight to the main process
    mainPosition,   \* the last 'position' message the main process received
    participants,   \* the keys of api._participants, in insertion order
    hasVideo,       \* the participants api._getParticipantVideo finds a video for
    overlayDoc,     \* the document of each overlay window
    windowCap,      \* how many overlay windows the window manager creates
    joinCap,        \* how many joins the engine reports without a leave between
    log             \* what the last handler did (calls made, messages sent)

vars == <<inConference, apiConfL, observing, blurL, focusL, closeL, ipcL, apiLVC,
          aotWindow, aotBW, storage, windows, nextId, toRenderer,
          shouldClosePending, mainPosition, participants, hasVideo,
          overlayDoc, windowCap, joinCap, log>>

(***************************************************************************)
(* Bounds                                                                  *)
(***************************************************************************)
MaxWindows == 2

\* how often videoConferenceJoined is handled without a videoConferenceLeft
\* between
MaxJoins == 2

\* the overlay windows created when the participants are followed as well
VideoWindows == MaxWindows - 1

(***************************************************************************)
(* Values                                                                  *)
(***************************************************************************)
\* undefined, for the two window references
NoWindow == 0

\* an optional number: <<>> is undefined, <<n>> is the number n
Undef == <<>>
Num(n) == <<n>>

\* a localStorage item: <<>> is null (no item), <<s>> is the string s,
\* a string being a sequence of one-character strings
Null == <<>>
Str(s) == <<s>>

\* the participant ids the conference hands out
ParticipantIds == {"A", "B"}

\* screen positions a window can be dragged to, and where the window manager
\* puts a window when it was given no placement
Positions == { <<120, 340>> }
DefaultPlacement == <<55, 66>>

\* String(n) for an integer, as localStorage.setItem stores a number
RECURSIVE DigitsOf(_)
DigitChar(d) ==
    CASE d = 0 -> "0" [] d = 1 -> "1" [] d = 2 -> "2" [] d = 3 -> "3"
      [] d = 4 -> "4" [] d = 5 -> "5" [] d = 6 -> "6" [] d = 7 -> "7"
      [] d = 8 -> "8" [] d = 9 -> "9"
DigitsOf(n) ==
    IF n < 10 THEN <<DigitChar(n)>>
    ELSE Append(DigitsOf(n \div 10), DigitChar(n % 10))
\* (mutant) the sign of a negative coordinate is lost
NumberToStringNoSign(n) == IF n < 0 THEN DigitsOf(0 - n) ELSE DigitsOf(n)

NumberToString(n) == IF n < 0 THEN <<"-">> \o DigitsOf(0 - n) ELSE DigitsOf(n)

\* Number(s) for a string over the alphabet used here (the decimal digits,
\* '-', '+', 'a', 'b'): an optional sign and decimal digits, or the binary
\* literal 0b... (which takes no sign); <<>> stands for NaN
IsDigit(c) == c \in {"0", "1", "2", "3", "4", "5", "6", "7", "8", "9"}
DigitVal(c) ==
    CASE c = "0" -> 0 [] c = "1" -> 1 [] c = "2" -> 2 [] c = "3" -> 3
      [] c = "4" -> 4 [] c = "5" -> 5 [] c = "6" -> 6 [] c = "7" -> 7
      [] c = "8" -> 8 [] c = "9" -> 9
RECURSIVE DigitsValue(_)
DigitsValue(s) ==
    IF s = <<>> THEN 0
    ELSE 10 * DigitsValue(SubSeq(s, 1, Len(s) - 1)) + DigitVal(s[Len(s)])
AllDigits(s) == s # <<>> /\ \A i \in 1..Len(s) : IsDigit(s[i])
RECURSIVE BinaryValue(_)
BinaryValue(s) ==
    IF s = <<>> THEN 0
    ELSE 2 * BinaryValue(SubSeq(s, 1, Len(s) - 1)) + DigitVal(s[Len(s)])
IsBinaryLiteral(s) ==
    /\ Len(s) >= 3
    /\ s[1] = "0" /\ s[2] = "b"
    /\ \A i \in 3..Len(s) : s[i] \in {"0", "1"}
StringToNumber(s) ==
    IF s = <<>> THEN Num(0)
    ELSE IF AllDigits(s) THEN Num(DigitsValue(s))
    ELSE IF IsBinaryLiteral(s) THEN Num(BinaryValue(SubSeq(s, 3, Len(s))))
    ELSE IF s[1] \in {"-", "+"} /\ AllDigits(Tail(s))
         THEN Num((IF s[1] = "-" THEN -1 ELSE 1) * DigitsValue(Tail(s)))
    ELSE Undef

\* getNumberFromLocalStorage
getNumberFromLocalStorage(item) ==
    IF item = Null \/ item = Str(<<>>) THEN Undef
    ELSE StringToNumber(item[1])

\* get _position
GetPosition(st) ==
    [x |-> getNumberFromLocalStorage(st.x), y |-> getNumberFromLocalStorage(st.y)]

\* set _position: the typeof guard
SetterAccepts(p) == p.x # Undef /\ p.y # Undef

\* (mutant) the two coordinates are stored under each other's key
StoredPositionSwapped(p) ==
    [x |-> Str(NumberToString(p.y[1])), y |-> Str(NumberToString(p.x[1]))]

\* set _position: the two setItem calls
StoredPosition(p) ==
    [x |-> Str(NumberToString(p.x[1])), y |-> Str(NumberToString(p.y[1]))]

\* what localStorage may hold when the page is first loaded
InitialStorage ==
    { [x |-> Null, y |-> Null],
      [x |-> Str(<<>>), y |-> Str(<<"a", "b">>)],
      [x |-> Str(<<"-", "8">>), y |-> Str(<<"0", "b", "1", "0">>)] }


(***************************************************************************)
(* The record of what one handler did                                      *)
(***************************************************************************)
\* op: the handler; win: the overlay window that called it (or NoWindow);
\* created: window.open was called; posMsg: the 'position' messages sent;
\* stored: localStorage was written; shouldClose: a should-close request was
\* sent; winClose: close() was called on the overlay window; ipcRemoved: the
\* channel listener was removed; err: the error the handler raised; ret: what
\* getCurrentSize returned; counts: the counts of the 'jitsi-always-video-count'
\* messages sent, in order; reused: how many lookups of a participant's video
\* element found one
Quiet(op, w) ==
    [op |-> op, win |-> w, created |-> FALSE, posMsg |-> <<>>, stored |-> FALSE,
     shouldClose |-> FALSE, winClose |-> FALSE, ipcRemoved |-> FALSE,
     err |-> "none", ret |-> "none", counts |-> <<>>, reused |-> 0]

(***************************************************************************)
(* Window records (the window manager's side)                              *)
(***************************************************************************)
\* status: "none" not created, "live", "closing" (close requested, the
\* window's beforeunload not yet run), "destroyed"
\* loading: webContents.isLoading();  pos: getPosition()
\* setup: how many times _setupAlwaysOnTopWindow injected into this window
\* dsl: 'did-stop-loading' callbacks registered on its webContents
NoWindowRecord ==
    [status |-> "none", loading |-> FALSE, pos |-> DefaultPlacement,
     setup |-> 0, dsl |-> 0]

\* a destroyed window: nothing of it can be read any more but that it is
\* destroyed
DestroyedWindowRecord(r) ==
    [NoWindowRecord EXCEPT !.status = "destroyed"]

\* the document of an overlay window before the overlay's script has built
\* it: ready says the nodes 'react' and 'video' exist, videos[p] is the number
\* of elements with id video_p
BlankDocument ==
    [ready |-> FALSE, videos |-> [p \in ParticipantIds |-> 0]]

\* BrowserWindow.isDestroyed()
IsDestroyed(w) == windows[w].status = "destroyed"

\* EventEmitter.removeListener: removes one registration, if there is one
RemoveListener(n) == IF n > 0 THEN n - 1 ELSE 0

\* EventEmitter.on: adds a registration
AddListener(n) == n + 1

\* the window manager closes window w of the table ws
RequestClose(ws, w) ==
    IF w # NoWindow /\ ws[w].status = "live"
    THEN [ws EXCEPT ![w].status = "closing"]
    ELSE ws

\* the placement the main process gives a new window: the last position it
\* received if that has both coordinates, the default otherwise
MainPlacement(p) ==
    IF p.x # Undef /\ p.y # Undef THEN <<p.x[1], p.y[1]>> ELSE DefaultPlacement

\* the main process handles a should-close request: closes its overlay window
MainHandleShouldClose(ws, pending) ==
    IF pending THEN RequestClose(ws, nextId) ELSE ws

(***************************************************************************)
(* _closeAlwaysOnTopWindow                                                 *)
(***************************************************************************)
\* the guard of lines 452 and 465
HandleLive == aotBW # NoWindow /\ ~IsDestroyed(aotBW)

\* the position read from the handle, as the object handed to the setter
HandlePosition ==
    [x |-> Num(windows[aotBW].pos[1]), y |-> Num(windows[aotBW].pos[2])]

CloseStores == HandleLive /\ SetterAccepts(HandlePosition)

StorageAfterClose == IF CloseStores THEN StoredPosition(HandlePosition) ELSE storage

MainPositionAfterClose == IF CloseStores THEN HandlePosition ELSE mainPosition

\* line 466: close() on the overlay window
CloseCallsWindowClose == aotWindow # NoWindow /\ HandleLive

WindowsAfterClose ==
    IF CloseCallsWindowClose THEN RequestClose(windows, aotWindow) ELSE windows

\* (mutant) the channel listener is left registered
IpcAfterCloseKept == ipcL

\* (mutant) the channel listener is removed inside the check of the handle
IpcAfterCloseWhenHandle == IF HandleLive THEN RemoveListener(ipcL) ELSE ipcL

\* line 469
IpcAfterClose == IF aotWindow # NoWindow THEN RemoveListener(ipcL) ELSE ipcL

\* (mutant) the request is not sent
CloseNeverSendsShouldClose == FALSE

\* line 475: the request is sent on every call
CloseSendsShouldClose == TRUE

\* (mutant) the references are not cleared
ReferenceKeptAfterClose == aotWindow

\* lines 477-478: both references are cleared
ReferenceAfterClose == NoWindow

CloseLog(op, w) ==
    [Quiet(op, w) EXCEPT
        !.posMsg = IF CloseStores THEN <<HandlePosition>> ELSE <<>>,
        !.stored = CloseStores,
        !.winClose = CloseCallsWindowClose,
        !.ipcRemoved = (aotWindow # NoWindow),
        !.shouldClose = CloseSendsShouldClose]

\* _closeAlwaysOnTopWindow as a handler named op, called from window w
CloseAlwaysOnTopWindow(op, w) ==
    /\ storage' = StorageAfterClose
    /\ mainPosition' = MainPositionAfterClose
    /\ windows' = WindowsAfterClose
    /\ ipcL' = IpcAfterClose
    /\ shouldClosePending' = (shouldClosePending \/ CloseSendsShouldClose)
    /\ aotBW' = ReferenceAfterClose
    /\ aotWindow' = ReferenceAfterClose
    /\ log' = CloseLog(op, w)
    /\ UNCHANGED <<apiLVC, nextId, toRenderer>>

(***************************************************************************)
(* _openAlwaysOnTopWindow                                                  *)
(***************************************************************************)
\* (mutant) the guard is missing
NeverAlreadyOpen == FALSE

\* the guard of line 434
AlreadyOpen == aotWindow # NoWindow

\* window.open: the main process, having handled what was sent before,
\* creates the window and announces it with a new-window message
NewWindowRecord ==
    [status |-> "live", loading |-> TRUE, pos |-> MainPlacement(mainPosition),
     setup |-> 0, dsl |-> 0]

\* an open request can be served within the bound on windows
CanOpen == AlreadyOpen \/ nextId < windowCap

OpenAlwaysOnTopWindow(op) ==
    IF AlreadyOpen
    THEN /\ log' = Quiet(op, NoWindow)
         /\ UNCHANGED <<ipcL, apiLVC, aotWindow, aotBW, storage, windows, nextId,
                        toRenderer, shouldClosePending, mainPosition>>
    ELSE /\ ipcL' = AddListener(ipcL)
         /\ apiLVC' = AddListener(apiLVC)
         /\ nextId' = nextId + 1
         /\ windows' = [MainHandleShouldClose(windows, shouldClosePending)
                            EXCEPT ![nextId + 1] = NewWindowRecord]
         /\ shouldClosePending' = FALSE
         /\ toRenderer' = Append(toRenderer, nextId + 1)
         /\ aotWindow' = nextId + 1
         /\ log' = [Quiet(op, NoWindow) EXCEPT !.created = TRUE]
         /\ UNCHANGED <<aotBW, storage, mainPosition>>


(***************************************************************************)
(* Frames                                                                  *)
(***************************************************************************)
\* the registrations made by _onConferenceJoined
joinVars == <<inConference, observing, blurL, focusL, closeL>>

\* the participants and the overlay documents
videoVars == <<participants, hasVideo, overlayDoc>>

\* what no handler changes
fixedVars == <<windowCap, joinCap>>

\* what only the page's beforeunload listener and the next page change
pageVars == <<apiConfL>>

\* everything _openAlwaysOnTopWindow and _closeAlwaysOnTopWindow may touch
coreVars == <<ipcL, apiLVC, aotWindow, aotBW, storage, windows, nextId,
              toRenderer, shouldClosePending, mainPosition>>

\* a handler that is not run because nothing is registered for its event
NothingRegistered(op) == log' = Quiet(op, NoWindow) /\ UNCHANGED coreVars

(***************************************************************************)
(* Initial state: the constructor has run                                  *)
(***************************************************************************)
Constructed ==
    /\ inConference = FALSE
    /\ apiConfL = 1
    /\ observing = FALSE
    /\ blurL = 0
    /\ focusL = 0
    /\ closeL = 0
    /\ ipcL = 0
    /\ apiLVC = 0
    /\ aotWindow = NoWindow
    /\ aotBW = NoWindow
    /\ storage \in InitialStorage
    /\ windows = [w \in 1..MaxWindows |-> NoWindowRecord]
    /\ nextId = 0
    /\ toRenderer = <<>>
    /\ shouldClosePending = FALSE
    /\ mainPosition = GetPosition(storage)
    /\ participants = <<>>
    /\ hasVideo = {}
    /\ overlayDoc = [w \in 1..MaxWindows |-> BlankDocument]
    /\ log = [Quiet("constructor", NoWindow) EXCEPT !.posMsg = <<GetPosition(storage)>>]

\* the constructor has run; the runs followed are those with up to
\* MaxWindows overlay windows and every join followed by a leave, and those
\* with up to MaxWindows - 1 overlay windows and up to MaxJoins joins without a
\* leave between
Caps == { <<MaxWindows, 1>>, <<MaxWindows - 1, MaxJoins>> }

Init == Constructed /\ \E c \in Caps : windowCap = c[1] /\ joinCap = c[2]

\* the same with up to VideoWindows overlay windows, on a first run (no
\* position stored yet)
InitVideo ==
    /\ Constructed
    /\ storage = [x |-> Null, y |-> Null]
    /\ windowCap = VideoWindows
    /\ joinCap = 1

(***************************************************************************)
(* Conference events                                                       *)
(***************************************************************************)
\* a conference event for which the api has no listener any more
ConferenceEventUnheard(op) ==
    /\ log' = Quiet(op, NoWindow)
    /\ UNCHANGED <<observing, blurL, focusL, closeL>>
    /\ UNCHANGED coreVars

\* the engine emits videoConferenceJoined: _onConferenceJoined, if still
\* registered, adds one listener each for blur, focus and close, whether or
\* not a videoConferenceLeft came since the last join
ConferenceJoined ==
    /\ apiConfL > 0 => blurL < joinCap
    /\ inConference' = TRUE
    /\ IF apiConfL > 0
       THEN /\ blurL' = AddListener(blurL)
            /\ focusL' = AddListener(focusL)
            /\ closeL' = AddListener(closeL)
            /\ observing' = TRUE
            /\ log' = Quiet("joined", NoWindow)
            /\ UNCHANGED coreVars
       ELSE ConferenceEventUnheard("joinedUnheard")
    /\ UNCHANGED videoVars
    /\ UNCHANGED fixedVars
    /\ UNCHANGED pageVars

\* _onConferenceLeft as handler op: one listener each removed, then the close
OnConferenceLeft(op) ==
    /\ observing' = FALSE
    /\ blurL' = RemoveListener(blurL)
    /\ focusL' = RemoveListener(focusL)
    /\ closeL' = RemoveListener(closeL)
    /\ CloseAlwaysOnTopWindow(op, NoWindow)

\* the engine emits videoConferenceLeft: _onConferenceLeft, if still
\* registered
ConferenceLeft ==
    /\ inConference' = FALSE
    /\ IF apiConfL > 0
       THEN OnConferenceLeft("left")
       ELSE ConferenceEventUnheard("leftUnheard")
    /\ UNCHANGED videoVars
    /\ UNCHANGED fixedVars
    /\ UNCHANGED pageVars

\* the api emits _willDispose: _onConferenceLeft (line 70; this registration
\* is never removed)
WillDispose ==
    /\ inConference' = FALSE
    /\ OnConferenceLeft("left")
    /\ UNCHANGED videoVars
    /\ UNCHANGED fixedVars
    /\ UNCHANGED pageVars

(***************************************************************************)
(* Primary-window events                                                   *)
(***************************************************************************)
\* A listener registered k times runs k times.  After its first run
\* _openAlwaysOnTopWindow returns at line 435, and _closeAlwaysOnTopWindow
\* finds neither reference and only sends the should-close request again, so
\* k runs leave what one run leaves.

\* 'blur' of the primary window: runs _openAlwaysOnTopWindow if registered
Blur ==
    /\ blurL > 0 => CanOpen
    /\ IF blurL > 0 THEN OpenAlwaysOnTopWindow("blur") ELSE NothingRegistered("blur")
    /\ UNCHANGED joinVars
    /\ UNCHANGED videoVars
    /\ UNCHANGED fixedVars
    /\ UNCHANGED pageVars

\* 'focus' of the primary window: runs _closeAlwaysOnTopWindow if registered
Focus ==
    /\ IF focusL > 0
       THEN CloseAlwaysOnTopWindow("focus", NoWindow)
       ELSE NothingRegistered("focus")
    /\ UNCHANGED joinVars
    /\ UNCHANGED videoVars
    /\ UNCHANGED fixedVars
    /\ UNCHANGED pageVars

\* 'close' of the primary window: runs _closeAlwaysOnTopWindow if registered
PrimaryClose ==
    /\ IF closeL > 0
       THEN CloseAlwaysOnTopWindow("close", NoWindow)
       ELSE NothingRegistered("close")
    /\ UNCHANGED joinVars
    /\ UNCHANGED videoVars
    /\ UNCHANGED fixedVars
    /\ UNCHANGED pageVars

\* (mutant) the focus listener re-added after every intersection change
FocusReAddedAlways(isIntersecting) == AddListener(RemoveListener(focusL))

\* the 'focus' listeners after _onIntersection: removed first (line 258),
\* added again only in the isIntersecting branch (line 265)
FocusAfterIntersection(isIntersecting) ==
    IF isIntersecting
    THEN AddListener(RemoveListener(focusL))
    ELSE RemoveListener(focusL)

\* _onIntersection with the last entry's isIntersecting
OnIntersection(isIntersecting) ==
    /\ observing
    /\ ~isIntersecting => CanOpen
    /\ IF isIntersecting
       THEN CloseAlwaysOnTopWindow("intersecting", NoWindow)
       ELSE OpenAlwaysOnTopWindow("notIntersecting")
    /\ focusL' = FocusAfterIntersection(isIntersecting)
    /\ UNCHANGED <<inConference, observing, blurL, closeL>>
    /\ UNCHANGED videoVars
    /\ UNCHANGED fixedVars
    /\ UNCHANGED pageVars


(***************************************************************************)
(* Messages from the main process                                          *)
(***************************************************************************)
\* _setupAlwaysOnTopWindow run n times: injects window.alwaysOnTop and the
\* script tag into the window this._alwaysOnTopWindow refers to, if any
\* (what is injected into a window that is gone is never run)
SetupAlwaysOnTopWindow(ws, n) ==
    IF aotWindow = NoWindow \/ ws[aotWindow].status = "destroyed" THEN ws
    ELSE [ws EXCEPT ![aotWindow].setup = @ + n]

\* the new-window message at the head of the channel reaches the renderer:
\* _onMessageReceived / _onNewAlwaysOnTopBrowserWindow if it is registered.
\* BrowserWindow.fromId gives no object for a destroyed window, and taking
\* webContents of it raises.
DeliverNewWindow ==
    /\ toRenderer # <<>>
    /\ toRenderer' = Tail(toRenderer)
    /\ LET id == Head(toRenderer) IN
         IF ipcL = 0
         THEN /\ log' = Quiet("newWindowUnheard", NoWindow)
              /\ UNCHANGED <<aotBW, windows>>
         ELSE IF IsDestroyed(id)
         THEN /\ aotBW' = NoWindow
              /\ log' = [Quiet("newWindow", NoWindow) EXCEPT !.err = "noHandle"]
              /\ UNCHANGED windows
         ELSE /\ aotBW' = id
              /\ windows' = IF windows[id].loading
                            THEN [windows EXCEPT ![id].dsl = @ + 1]
                            ELSE SetupAlwaysOnTopWindow(windows, 1)
              /\ log' = Quiet("newWindow", NoWindow)
    /\ UNCHANGED <<ipcL, apiLVC, aotWindow, storage, nextId, shouldClosePending,
                   mainPosition>>
    /\ UNCHANGED joinVars
    /\ UNCHANGED videoVars
    /\ UNCHANGED fixedVars
    /\ UNCHANGED pageVars

\* window w stops loading: every registered 'did-stop-loading' callback runs
\* _setupAlwaysOnTopWindow
DidStopLoading(w) ==
    /\ windows[w].status \in {"live", "closing"}
    /\ windows[w].loading
    /\ windows' = SetupAlwaysOnTopWindow([windows EXCEPT ![w].loading = FALSE],
                                         windows[w].dsl)
    /\ log' = IF windows[w].dsl > 0 THEN Quiet("didStopLoading", w)
              ELSE Quiet("platform", NoWindow)
    /\ UNCHANGED <<ipcL, apiLVC, aotWindow, aotBW, storage, nextId, toRenderer,
                   shouldClosePending, mainPosition>>
    /\ UNCHANGED joinVars
    /\ UNCHANGED videoVars
    /\ UNCHANGED fixedVars
    /\ UNCHANGED pageVars

(***************************************************************************)
(* Calls the overlay's script makes into window.alwaysOnTop                *)
(***************************************************************************)
\* the script of window w runs and has the injected object
OverlayRuns(w) == windows[w].status = "live" /\ windows[w].setup > 0

\* dismiss: _dismiss
OverlayDismiss(w) ==
    /\ OverlayRuns(w)
    /\ CloseAlwaysOnTopWindow("dismiss", w)
    /\ UNCHANGED joinVars
    /\ UNCHANGED videoVars
    /\ UNCHANGED fixedVars
    /\ UNCHANGED pageVars

\* ondblclick
OverlayDblClick(w) ==
    /\ OverlayRuns(w)
    /\ CloseAlwaysOnTopWindow("dblclick", w)
    /\ UNCHANGED joinVars
    /\ UNCHANGED videoVars
    /\ UNCHANGED fixedVars
    /\ UNCHANGED pageVars

\* the guard of move and getCurrentSize (lines 391 and 405)
HandleKnown == aotBW # NoWindow

\* move(x, y, initialSize): setBounds on the recorded handle
OverlayMove(w, p) ==
    /\ OverlayRuns(w)
    /\ IF ~HandleKnown
       THEN /\ log' = Quiet("move", w)
            /\ UNCHANGED windows
       ELSE IF IsDestroyed(aotBW)
       THEN /\ log' = [Quiet("move", w) EXCEPT !.err = "destroyedHandle"]
            /\ UNCHANGED windows
       ELSE /\ log' = Quiet("move", w)
            /\ windows' = [windows EXCEPT ![aotBW].pos = p]
    /\ UNCHANGED <<ipcL, apiLVC, aotWindow, aotBW, storage, nextId, toRenderer,
                   shouldClosePending, mainPosition>>
    /\ UNCHANGED joinVars
    /\ UNCHANGED videoVars
    /\ UNCHANGED fixedVars
    /\ UNCHANGED pageVars

\* getCurrentSize(): getSize on the recorded handle, or SIZE
OverlayGetCurrentSize(w) ==
    /\ OverlayRuns(w)
    /\ log' = IF ~HandleKnown THEN [Quiet("getCurrentSize", w) EXCEPT !.ret = "SIZE"]
              ELSE IF IsDestroyed(aotBW)
              THEN [Quiet("getCurrentSize", w) EXCEPT !.err = "destroyedHandle"]
              ELSE [Quiet("getCurrentSize", w) EXCEPT !.ret = "handleSize"]
    /\ UNCHANGED coreVars
    /\ UNCHANGED joinVars
    /\ UNCHANGED videoVars
    /\ UNCHANGED fixedVars
    /\ UNCHANGED pageVars

(***************************************************************************)
(* The window manager and the user                                         *)
(***************************************************************************)
\* a window whose close was requested goes away; if it was set up, its
\* script first calls onbeforeunload (lines 365-371)
WindowClosed(w) ==
    /\ windows[w].status = "closing"
    /\ windows' = [windows EXCEPT ![w] = DestroyedWindowRecord(windows[w])]
    /\ IF windows[w].setup > 0
       THEN /\ apiLVC' = RemoveListener(apiLVC)
            /\ log' = Quiet("onbeforeunload", w)
       ELSE /\ apiLVC' = apiLVC
            /\ log' = Quiet("platform", NoWindow)
    /\ overlayDoc' = [overlayDoc EXCEPT ![w] = BlankDocument]
    /\ UNCHANGED <<ipcL, aotWindow, aotBW, storage, nextId, toRenderer,
                   shouldClosePending, mainPosition, participants, hasVideo>>
    /\ UNCHANGED joinVars
    /\ UNCHANGED fixedVars
    /\ UNCHANGED pageVars

\* the overlay window is closed by other means than the Coordinator
ExternalDestroy(w) ==
    /\ windows[w].status = "live"
    /\ windows' = RequestClose(windows, w)
    /\ log' = Quiet("platform", NoWindow)
    /\ UNCHANGED <<ipcL, apiLVC, aotWindow, aotBW, storage, nextId, toRenderer,
                   shouldClosePending, mainPosition>>
    /\ UNCHANGED joinVars
    /\ UNCHANGED videoVars
    /\ UNCHANGED fixedVars
    /\ UNCHANGED pageVars

\* the main process receives the should-close request
MainShouldClose ==
    /\ shouldClosePending
    /\ shouldClosePending' = FALSE
    /\ windows' = MainHandleShouldClose(windows, TRUE)
    /\ log' = Quiet("platform", NoWindow)
    /\ UNCHANGED <<ipcL, apiLVC, aotWindow, aotBW, storage, nextId, toRenderer,
                   mainPosition>>
    /\ UNCHANGED joinVars
    /\ UNCHANGED videoVars
    /\ UNCHANGED fixedVars
    /\ UNCHANGED pageVars

(***************************************************************************)
(* _onParticipantJoined (lines 304-332): the pass over the participants    *)
(***************************************************************************)
\* (mutant) a lookup that never finds the element it inserted earlier
NeverFindsVideoElement(videos, p) == FALSE

\* getElementById(`video_${participantId}`) finds an element (lines 125-129)
FindsVideoElement(videos, p) == videos[p] > 0

\* what the pass has done so far: the elements of the overlay document, the
\* counts sent, videoCount, the lookups that found an element, the error
PassStart(videos) ==
    [videos |-> videos, counts |-> <<>>, count |-> 0, reused |-> 0,
     err |-> "none"]

\* one round of the forEach of lines 309-330 for participant p, hv being the
\* participants with a video and ready the state of the overlay document.
\* Without a video nothing is looked up.  With one: without an overlay window
\* this._alwaysOnTopWindowVideo is undefined and line 314 raises; an element
\* found is returned by the lookup (line 129), and line 314 raises when the
\* node 'video' does not exist; otherwise one is created and inserted after
\* the node 'react', which raises at line 137 when that node does not exist.
\* The count is sent at the end of every round that did not raise (lines
\* 323-329).
PassRound(p, hv, ready, r) ==
    IF p \notin hv
    THEN [r EXCEPT !.counts = Append(@, r.count)]
    ELSE IF aotWindow = NoWindow
    THEN [r EXCEPT !.err = "typeError"]
    ELSE IF FindsVideoElement(r.videos, p)
    THEN IF ready
         THEN [r EXCEPT !.count = @ + 1, !.reused = @ + 1,
                        !.counts = Append(@, r.count + 1)]
         ELSE [r EXCEPT !.reused = @ + 1, !.err = "typeError"]
    ELSE IF ~ready
    THEN [r EXCEPT !.err = "typeError"]
    ELSE [r EXCEPT !.videos[p] = @ + 1, !.count = @ + 1,
                   !.counts = Append(@, r.count + 1)]

\* the forEach over Object.keys(participants) from index i on; an error
\* raised in a round ends the handler
RECURSIVE PassFrom(_, _, _, _, _)
PassFrom(ids, hv, ready, i, r) ==
    IF i > Len(ids) \/ r.err # "none"
    THEN r
    ELSE PassFrom(ids, hv, ready, i + 1, PassRound(ids[i], hv, ready, r))

\* _onParticipantJoined with the participants ids / hv and the overlay
\* documents docs, run as handler op (called from window w)
OnParticipantJoined(op, w, ids, hv, docs) ==
    LET videos == IF aotWindow = NoWindow THEN BlankDocument.videos
                  ELSE docs[aotWindow].videos
        ready == aotWindow # NoWindow /\ docs[aotWindow].ready
        r == PassFrom(ids, hv, ready, 1, PassStart(videos))
    IN  /\ overlayDoc' = IF aotWindow = NoWindow THEN docs
                         ELSE [docs EXCEPT ![aotWindow].videos = r.videos]
        /\ log' = [Quiet(op, w) EXCEPT !.counts = r.counts,
                                       !.reused = r.reused, !.err = r.err]

\* the ids of a sequence of participants
IdsOf(ids) == { ids[i] : i \in 1..Len(ids) }

\* the engine adds participant p, with or without a video, and emits
\* 'participantJoined', registered in the constructor (line 72)
ParticipantJoined(p, v) ==
    /\ p \notin IdsOf(participants)
    /\ participants' = Append(participants, p)
    /\ hasVideo' = IF v THEN hasVideo \cup {p} ELSE hasVideo
    /\ OnParticipantJoined("participantJoined", NoWindow, participants',
                           hasVideo', overlayDoc)
    /\ UNCHANGED coreVars
    /\ UNCHANGED joinVars
    /\ UNCHANGED fixedVars
    /\ UNCHANGED pageVars

\* the engine removes participant p and emits 'participantLeft' or
\* 'participantKickedOut': _onParticipantLeft, _onParticipantKickedOut
\* (lines 334-340) do nothing
ParticipantLeft(p) ==
    /\ p \in IdsOf(participants)
    /\ participants' = SelectSeq(participants, LAMBDA q : q # p)
    /\ hasVideo' = hasVideo \ {p}
    /\ log' = Quiet("participantLeft", NoWindow)
    /\ UNCHANGED overlayDoc
    /\ UNCHANGED coreVars
    /\ UNCHANGED joinVars
    /\ UNCHANGED fixedVars
    /\ UNCHANGED pageVars

\* the video of participant p appears or goes away; no handler runs
VideoChanged(p) ==
    /\ p \in IdsOf(participants)
    /\ hasVideo' = IF p \in hasVideo THEN hasVideo \ {p} ELSE hasVideo \cup {p}
    /\ log' = Quiet("platform", NoWindow)
    /\ UNCHANGED <<participants, overlayDoc>>
    /\ UNCHANGED coreVars
    /\ UNCHANGED joinVars
    /\ UNCHANGED fixedVars
    /\ UNCHANGED pageVars

\* the script of window w has built its document and calls
\* window.alwaysOnTop.onload, which is _onParticipantJoined (line 364)
OverlayLoad(w) ==
    /\ OverlayRuns(w)
    /\ ~overlayDoc[w].ready
    /\ OnParticipantJoined("onload", w, participants, hasVideo,
                           [overlayDoc EXCEPT ![w].ready = TRUE])
    /\ UNCHANGED <<participants, hasVideo>>
    /\ UNCHANGED coreVars
    /\ UNCHANGED joinVars
    /\ UNCHANGED fixedVars
    /\ UNCHANGED pageVars

(***************************************************************************)
(* The page goes away                                                      *)
(***************************************************************************)
\* the 'beforeunload' listener of the page (lines 77-90): _onConferenceLeft,
\* then the handlers of videoConferenceJoined and videoConferenceLeft are
\* removed from the api.  The page may stay (the unload is cancelled).
BeforeUnload ==
    /\ OnConferenceLeft("beforeunload")
    /\ apiConfL' = RemoveListener(apiConfL)
    /\ UNCHANGED inConference
    /\ UNCHANGED videoVars
    /\ UNCHANGED fixedVars

\* the page is replaced after its beforeunload listener has run: the objects
\* of the old page and the listeners and callbacks it registered are gone,
\* the overlay windows stay, and the constructor (lines 45-93) runs on a new
\* api
NewPage ==
    /\ apiConfL = 0
    /\ apiConfL' = 1
    /\ inConference' = FALSE
    /\ observing' = FALSE
    /\ blurL' = 0
    /\ focusL' = 0
    /\ closeL' = 0
    /\ ipcL' = 0
    /\ apiLVC' = 0
    /\ aotWindow' = NoWindow
    /\ aotBW' = NoWindow
    /\ mainPosition' = GetPosition(storage)
    /\ windows' = [w \in 1..MaxWindows |->
                      [windows[w] EXCEPT !.setup = 0, !.dsl = 0]]
    /\ log' = [Quiet("constructor", NoWindow) EXCEPT
                  !.posMsg = <<GetPosition(storage)>>]
    /\ participants' = <<>>
    /\ hasVideo' = {}
    /\ overlayDoc' = [w \in 1..MaxWindows |-> BlankDocument]
    /\ UNCHANGED <<storage, nextId, toRenderer, shouldClosePending>>
    /\ UNCHANGED fixedVars

(***************************************************************************)
(* Specification                                                           *)
(***************************************************************************)
\* the steps taken while one page is loaded
PageLifeNext ==
    \/ ConferenceJoined
    \/ ConferenceLeft
    \/ WillDispose
    \/ Blur
    \/ Focus
    \/ PrimaryClose
    \/ \E b \in BOOLEAN : OnIntersection(b)
    \/ DeliverNewWindow
    \/ \E w \in 1..MaxWindows : DidStopLoading(w)
    \/ \E w \in 1..MaxWindows : OverlayDismiss(w)
    \/ \E w \in 1..MaxWindows : OverlayDblClick(w)
    \/ \E w \in 1..MaxWindows, p \in Positions : OverlayMove(w, p)
    \/ \E w \in 1..MaxWindows : OverlayGetCurrentSize(w)
    \/ \E w \in 1..MaxWindows : WindowClosed(w)
    \/ \E w \in 1..MaxWindows : ExternalDestroy(w)
    \/ MainShouldClose

\* the page is left and the next one loaded
PageChangeNext ==
    \/ BeforeUnload
    \/ NewPage

Next == PageLifeNext \/ PageChangeNext

Spec == Init /\ [][Next]_vars

\* the steps of the conference's participants and of the overlay's document
VideoNext ==
    \/ \E p \in ParticipantIds, v \in BOOLEAN : ParticipantJoined(p, v)
    \/ \E p \in ParticipantIds : ParticipantLeft(p)
    \/ \E p \in ParticipantIds : VideoChanged(p)
    \/ \E w \in 1..MaxWindows : OverlayLoad(w)

\* the overlay together with the participants, for VideoWindows windows and
\* while one page is loaded
NextVideo == PageLifeNext \/ VideoNext

SpecVideo == InitVideo /\ [][NextVideo]_vars

\* the shape of the state
TypeOK ==
    /\ inConference \in BOOLEAN /\ observing \in BOOLEAN
    /\ apiConfL \in 0..1
    /\ joinCap \in 1..MaxJoins
    /\ blurL \in 0..joinCap /\ focusL \in 0..blurL /\ closeL = blurL
    /\ ipcL \in 0..1 /\ apiLVC \in 0..MaxWindows
    /\ aotWindow \in 0..MaxWindows /\ aotBW \in 0..MaxWindows
    /\ nextId \in 0..windowCap /\ windowCap \in 1..MaxWindows
    /\ hasVideo \subseteq IdsOf(participants)
    /\ IdsOf(participants) \subseteq ParticipantIds
    /\ Len(participants) = Cardinality(IdsOf(participants))
    /\ \A w \in 1..MaxWindows :
          windows[w].status \in {"none", "live", "closing", "destroyed"}


(***************************************************************************)
(* Properties                                                              *)
(***************************************************************************)
\* the handlers that are requests to open, and those that are requests to close
OpenOps == {"blur", "notIntersecting"}
CloseOps ==
    {"focus", "close", "intersecting", "left", "beforeunload", "dismiss",
     "dblclick"}

\* the steps that are not a handler of the Coordinator's own signals
DeliveryOps == {"platform", "newWindow", "newWindowUnheard", "didStopLoading",
                "onbeforeunload", "move", "getCurrentSize"}

\* this step ran _closeAlwaysOnTopWindow
CloseRequestRuns ==
    \/ log'.op \in {"intersecting", "left", "beforeunload", "dismiss", "dblclick"}
    \/ log'.op = "focus" /\ focusL > 0
    \/ log'.op = "close" /\ closeL > 0

\* this step ran _openAlwaysOnTopWindow
OpenRequestRuns ==
    \/ log'.op = "notIntersecting"
    \/ log'.op = "blur" /\ blurL > 0

\* an open was requested and its new-window message has not arrived
OpenPending ==
    /\ aotWindow # NoWindow
    /\ \E i \in 1..Len(toRenderer) : toRenderer[i] = aotWindow

\* a position as the object the handlers pass around
AsPosition(xy) == [x |-> Num(xy[1]), y |-> Num(xy[2])]

----------------------------------------------------------------------------
\* C1 (as stated): after conference joined the overlay is open iff the most
\* recent blur / focus / visibility event was blur or not-intersecting, and
\* closed iff it was focus or intersecting.
C1_AsStated ==
    inConference =>
        /\ log.op \in {"blur", "notIntersecting"} => aotWindow # NoWindow
        /\ log.op \in {"focus", "intersecting"} => aotWindow = NoWindow

\* C1 (amended): the overlay is open after a blur whose handler is attached
\* and after a not-intersecting event, and closed after an intersecting
\* event; a focus event closes it only while a focus handler is attached.
\* After a single join none is attached from a not-intersecting event until
\* the next intersecting one: a focus event in between leaves the overlay as
\* it was.  Nothing but the Coordinator's own handlers changes whether the
\* overlay is open.
C1_AfterSignal ==
    /\ (log.op = "blur" /\ blurL > 0) => aotWindow # NoWindow
    /\ log.op = "notIntersecting" => aotWindow # NoWindow
    /\ (log.op = "notIntersecting" /\ blurL <= 1) => focusL = 0
    /\ log.op = "intersecting" => aotWindow = NoWindow /\ focusL >= 1
    /\ (log.op = "focus" /\ focusL > 0) => aotWindow = NoWindow
C1_Step ==
    /\ log'.op = "focus" /\ focusL = 0 => aotWindow' = aotWindow
    /\ log'.op \in DeliveryOps => aotWindow' = aotWindow
C1_Amended == [](C1_AfterSignal) /\ [][C1_Step]_vars

\* C1 witness: a focus event after a not-intersecting one found no handler and
\* the overlay is still open
C1_Witness ==
    inConference /\ log.op = "focus" /\ focusL = 0 /\ aotWindow # NoWindow

----------------------------------------------------------------------------
\* C2: an open request made while an overlay reference exists (open or open
\* pending) makes no creation call and registers no listener; every creation
\* call is made with no overlay referenced, and the Coordinator refers to the
\* window it created last.
C2_Step ==
    /\ (OpenRequestRuns /\ aotWindow # NoWindow) =>
           /\ ~log'.created
           /\ UNCHANGED <<nextId, ipcL, apiLVC, aotWindow, toRenderer, windows>>
    /\ log'.created => aotWindow = NoWindow /\ nextId' = nextId + 1
                       /\ aotWindow' = nextId'
C2_OneOverlay == [][C2_Step]_vars /\ [](ipcL <= 1 /\ aotWindow \in {NoWindow, nextId})

\* C2 witness: a blur handled while the overlay was already there
C2_Witness ==
    log.op = "blur" /\ blurL > 0 /\ ~log.created /\ aotWindow # NoWindow

----------------------------------------------------------------------------
\* C3 (as stated): a close requested while the open is pending is deferred:
\* the Coordinator keeps its overlay until the new-window message arrives.
C3_AsStated ==
    [][(CloseRequestRuns /\ OpenPending) => aotWindow' = aotWindow]_vars

\* C3 (amended): a close requested while the open is pending is applied at
\* once and is not lost: the Coordinator is Closed immediately, stops
\* listening on the channel, and sends the should-close request that makes
\* the window manager destroy the window.  The pending open has recorded no
\* handle of its own: nothing is stored, unless the new-window message of an
\* earlier open has recorded that open's handle and its window is live; then
\* that window's position is stored and sent and close() is called on the
\* pending window.  The new-window message that arrives while the
\* Coordinator is Closed is not heard and leaves it Closed.
C3_Step ==
    /\ (CloseRequestRuns /\ OpenPending) =>
           /\ aotWindow' = NoWindow /\ aotBW' = NoWindow
           /\ ipcL' = 0
           /\ log'.shouldClose /\ shouldClosePending'
           /\ aotBW # aotWindow
           /\ IF aotBW # NoWindow /\ ~IsDestroyed(aotBW)
              THEN /\ log'.stored /\ log'.winClose
                   /\ GetPosition(storage') = AsPosition(windows[aotBW].pos)
                   /\ log'.posMsg = <<AsPosition(windows[aotBW].pos)>>
              ELSE /\ ~log'.stored /\ ~log'.winClose
                   /\ log'.posMsg = <<>> /\ storage' = storage
    /\ (log'.op \in {"newWindow", "newWindowUnheard"} /\ aotWindow = NoWindow) =>
           /\ log'.op = "newWindowUnheard"
           /\ UNCHANGED <<aotWindow, aotBW, storage, windows, ipcL, apiLVC>>
C3_Amended == [][C3_Step]_vars

\* C3 witness: the new-window message of an open that was closed while
\* pending arrives and finds the Coordinator Closed
C3_Witness ==
    log.op = "newWindowUnheard" /\ aotWindow = NoWindow /\ aotBW = NoWindow

----------------------------------------------------------------------------
\* C4 (as stated): a close request made while no overlay exists stores
\* nothing, sends no position message and no should-close request, and leaves
\* the Coordinator's state unchanged.
C4_AsStated ==
    [][(CloseRequestRuns /\ aotWindow = NoWindow /\ aotBW = NoWindow) =>
           /\ ~log'.stored /\ log'.posMsg = <<>> /\ ~log'.shouldClose
           /\ UNCHANGED <<aotWindow, aotBW, storage, ipcL, apiLVC, windows,
                          nextId, toRenderer, mainPosition>>]_vars

\* C4 (amended): a close request made while no overlay exists stores nothing,
\* sends no position message, calls close() on no window and leaves the
\* Coordinator's state unchanged, but it does send one should-close request.
C4_Amended ==
    [][(CloseRequestRuns /\ aotWindow = NoWindow /\ aotBW = NoWindow) =>
           /\ ~log'.stored /\ log'.posMsg = <<>> /\ ~log'.winClose
           /\ ~log'.ipcRemoved
           /\ log'.shouldClose /\ shouldClosePending'
           /\ UNCHANGED <<aotWindow, aotBW, storage, ipcL, apiLVC, windows,
                          nextId, toRenderer, mainPosition>>]_vars

\* C4 witness: a focus handled with no overlay
C4_Witness ==
    log.op = "focus" /\ focusL > 0 /\ log.shouldClose /\ ~log.ipcRemoved

----------------------------------------------------------------------------
\* C5 (as stated): after onConferenceLeft the primary window has no blur,
\* focus or close handler of the Coordinator and the engine has no
\* largeVideoChanged handler.
C5_AsStated ==
    log.op = "left" => blurL = 0 /\ focusL = 0 /\ closeL = 0 /\ apiLVC = 0

----------------------------------------------------------------------------
\* C6: a close that finds an overlay whose handle is live stores the handle's
\* position and sends exactly one position message with the same coordinates;
\* a move stores nothing and sends no position message; a close that follows
\* a close sends none either.
C6_Step ==
    /\ (CloseRequestRuns /\ aotWindow # NoWindow /\ aotBW # NoWindow
          /\ ~IsDestroyed(aotBW)) =>
           /\ log'.stored
           /\ GetPosition(storage') = AsPosition(windows[aotBW].pos)
           /\ log'.posMsg = <<AsPosition(windows[aotBW].pos)>>
    /\ log'.op = "move" =>
           /\ ~log'.stored /\ log'.posMsg = <<>>
           /\ storage' = storage /\ mainPosition' = mainPosition
    /\ (CloseRequestRuns /\ log.op \in CloseOps /\ log.shouldClose) =>
           /\ ~log'.stored /\ log'.posMsg = <<>> /\ storage' = storage
C6_PositionOnClose == [][C6_Step]_vars

\* C6 witness: a focus closed an overlay that had been dragged to {120, 340}
C6_Witness ==
    /\ log.op = "focus" /\ log.stored /\ log.winClose
    /\ log.posMsg = <<AsPosition(<<120, 340>>)>>
    /\ GetPosition(storage) = AsPosition(<<120, 340>>)

----------------------------------------------------------------------------
\* C7: the window a creation call creates is placed at the stored position,
\* which is the position the last storing close persisted, and at the default
\* placement when no position (or not both coordinates) is stored.
C7_Step ==
    log'.created =>
        windows'[nextId'].pos =
            IF SetterAccepts(GetPosition(storage))
            THEN <<GetPosition(storage).x[1], GetPosition(storage).y[1]>>
            ELSE DefaultPlacement
C7_RoundTrip == [][C7_Step]_vars

\* C7 witness: the second overlay is created where the first was when closed
C7_Witness ==
    /\ log.created /\ nextId = 2
    /\ windows[2].pos = <<120, 340>>
    /\ GetPosition(storage) = AsPosition(<<120, 340>>)

----------------------------------------------------------------------------
\* C8 (as stated): when the overlay window goes away other than by a close
\* request, the Coordinator is reset to Closed: once the window has called
\* onbeforeunload the Coordinator no longer refers to it.
C8_AsStated ==
    log.op = "onbeforeunload" => aotWindow # log.win

----------------------------------------------------------------------------
\* C9 (as stated): no handler invokes a method on a destroyed handle.
C9_AsStated ==
    log.err # "destroyedHandle"

----------------------------------------------------------------------------
\* after _onConferenceLeft: no error, the overlay Closed, nothing observed
C10_AfterLeft ==
    log.op = "left" =>
        /\ log.err = "none"
        /\ aotWindow = NoWindow /\ aotBW = NoWindow /\ ipcL = 0
        /\ ~inConference /\ ~observing

\* a second _onConferenceLeft in a row changes nothing
C10_Step ==
    (log.op = "left" /\ log'.op = "left") =>
        /\ log' = [Quiet("left", NoWindow) EXCEPT !.shouldClose = TRUE]
        /\ UNCHANGED <<inConference, observing, blurL, focusL, closeL, ipcL,
                       apiLVC, aotWindow, aotBW, storage, mainPosition,
                       windows, nextId, toRenderer>>

\* C10 (as stated): onConferenceLeft raises nothing and leaves the overlay
\* Closed, also without a prior join; called a second time in a row it
\* changes nothing of the Coordinator's state (references, listener sets,
\* stored position).
C10_AsStated == [](C10_AfterLeft) /\ [][C10_Step]_vars


(***************************************************************************)
(* The pass over the participants                                          *)
(***************************************************************************)
\* the handlers that run _onParticipantJoined
PassOps == {"participantJoined", "onload"}

\* the overlay is Open: its window exists and its script has built its
\* document
OverlayOpen ==
    /\ aotWindow # NoWindow
    /\ windows[aotWindow].status = "live"
    /\ overlayDoc[aotWindow].ready

\* C11, as stated: while the overlay is Open a pass of _onParticipantJoined
\* over the known participants (at least one) sends exactly one video-count
\* message, and its count is the number of those that have a video
C11_AsStated ==
    (log.op \in PassOps /\ OverlayOpen /\ participants # <<>>)
        => log.counts = << Cardinality(hasVideo) >>

(***************************************************************************)
(* The engine's largeVideoChanged handlers                                 *)
(***************************************************************************)
\* C12, as stated: after a close request that found an overlay no
\* largeVideoChanged handler is left on the engine, and the engine never
\* holds more than one
C12_AsStated ==
    /\ apiLVC <= 1
    /\ (log.op \in CloseOps /\ log.ipcRemoved) => apiLVC = 0

(***************************************************************************)
(* The focus handler across visibility changes                             *)
(***************************************************************************)
\* C13, as stated: after a visibility-regained (intersecting) signal the focus
\* handler is detached from the primary window
C13_AsStated == log.op = "intersecting" => focusL = 0

\* after an intersecting signal a focus handler is attached; after a
\* not-intersecting one that follows a single join none is
C13_AfterSignal ==
    /\ log.op = "intersecting" => focusL >= 1
    /\ (log.op = "notIntersecting" /\ blurL <= 1) => focusL = 0

\* every signal detaches one registration of the focus handler and an
\* intersecting one attaches one again; a detached focus handler stays
\* detached until the next intersecting signal (or the next join), whatever
\* blur or visibility-lost signals arrive, and a focus event arriving
\* meanwhile runs no close logic
C13_Step ==
    /\ log'.op = "intersecting"
          => focusL' = IF focusL = 0 THEN 1 ELSE focusL
    /\ log'.op = "notIntersecting"
          => focusL' = IF focusL = 0 THEN 0 ELSE focusL - 1
    /\ (focusL = 0 /\ log'.op \notin {"intersecting", "joined"}) => focusL' = 0
    /\ (focusL = 0 /\ log'.op = "focus")
          => /\ log' = Quiet("focus", NoWindow)
             /\ UNCHANGED coreVars

\* C13, amended: _onIntersection detaches one registration of the focus
\* handler on every signal and attaches one again on an intersecting signal
\* only; after a single join the handler is detached after a not-intersecting
\* signal, stays so until the next intersecting signal, and focus events in
\* between do not run the close logic
C13_Amended == []C13_AfterSignal /\ [][C13_Step]_vars

\* a blur creates the overlay while the focus handler is still detached after
\* a not-intersecting signal
C13_Witness ==
    /\ inConference
    /\ log.op = "blur"
    /\ log.created
    /\ focusL = 0

(***************************************************************************)
(* Blur and visibility-lost in either order                                *)
(***************************************************************************)
\* what the claim compares: the overlay reference, the creation calls issued
\* so far and the listener sets
Coordinator ==
    [aotWindow |-> aotWindow, created |-> nextId, blurL |-> blurL,
     focusL |-> focusL, closeL |-> closeL, ipcL |-> ipcL, apiLVC |-> apiLVC]

\* _openAlwaysOnTopWindow as a function of that state
OpenResult(c) ==
    IF c.aotWindow # NoWindow
    THEN c
    ELSE [c EXCEPT !.aotWindow = c.created + 1, !.created = @ + 1,
                   !.ipcL = AddListener(@), !.apiLVC = AddListener(@)]

\* the blur handler registered by _onConferenceJoined
BlurResult(c) == OpenResult(c)

\* _onIntersection for a not-intersecting entry
LostResult(c) == OpenResult([c EXCEPT !.focusL = RemoveListener(@)])

\* the two functions are what the handlers do
C14_Step ==
    /\ (log'.op = "blur" /\ blurL > 0) => Coordinator' = BlurResult(Coordinator)
    /\ log'.op = "notIntersecting" => Coordinator' = LostResult(Coordinator)
    /\ log'.op \in OpenOps => (log'.created <=> nextId' = nextId + 1)

\* from a state after conference joined both orders end in the same state,
\* and a duplicate of either signal changes nothing further
C14_EitherOrder ==
    inConference =>
        /\ LostResult(BlurResult(Coordinator)) = BlurResult(LostResult(Coordinator))
        /\ BlurResult(BlurResult(Coordinator)) = BlurResult(Coordinator)
        /\ LostResult(LostResult(Coordinator)) = LostResult(Coordinator)
        /\ BlurResult(LostResult(BlurResult(Coordinator)))
              = LostResult(BlurResult(Coordinator))
        /\ LostResult(BlurResult(LostResult(Coordinator)))
              = LostResult(BlurResult(Coordinator))

\* C14 (as stated): after conference joined, a blur and a visibility-lost
\* signal handled in either order leave the same overlay reference, listener
\* sets and number of creation calls, and a duplicate of either changes
\* nothing further
C14_Commute == []C14_EitherOrder /\ [][C14_Step]_vars

\* a blur handled after a visibility-lost signal had opened the overlay: no
\* second creation, the focus handler still detached
C14_Witness ==
    /\ inConference
    /\ log.op = "blur"
    /\ ~log.created
    /\ aotWindow # NoWindow
    /\ focusL = 0

(***************************************************************************)
(* A participant joins while there is no initialised overlay               *)
(***************************************************************************)
\* the overlay is Closed, or referenced with a document the overlay's script
\* has not built yet
OverlayNotReady == aotWindow = NoWindow \/ ~overlayDoc[aotWindow].ready

\* C15, as stated: a participantJoined event handled while the overlay is
\* Closed or not yet initialised raises no error and leaves no video element
\* in the overlay document, whether or not participants have a video
C15_AsStated ==
    (log.op = "participantJoined" /\ OverlayNotReady)
        => /\ log.err = "none"
           /\ aotWindow # NoWindow
                 => \A p \in ParticipantIds : overlayDoc[aotWindow].videos[p] = 0

(***************************************************************************)
(* One video element per participant                                       *)
(***************************************************************************)
\* no overlay document holds two video elements for one participant
C16_AtMostOne ==
    \A w \in 1..MaxWindows, p \in ParticipantIds : overlayDoc[w].videos[p] <= 1

\* an element is added only by a pass, to the document of the overlay
\* referenced, for a participant that has a video and no element yet; a pass
\* over an Open overlay raises nothing, leaves every participant with a video
\* one element, and found (reused) exactly the elements that were there
C16_Step ==
    /\ \A w \in 1..MaxWindows, p \in ParticipantIds :
          overlayDoc'[w].videos[p] > overlayDoc[w].videos[p]
             => /\ log'.op \in PassOps
                /\ w = aotWindow
                /\ p \in hasVideo'
                /\ overlayDoc[w].videos[p] = 0
    /\ (log'.op \in PassOps /\ OverlayOpen')
          => /\ log'.err = "none"
             /\ \A p \in hasVideo' : overlayDoc'[aotWindow].videos[p] = 1
             /\ log'.reused =
                   Cardinality({p \in hasVideo' : overlayDoc[aotWindow].videos[p] = 1})

\* C16: however many passes run, an overlay document holds at most one video
\* element per participant: it is created by the first pass that finds the
\* participant's video and found again by every later pass; a participant
\* without a video gets none
C16_OneElement == []C16_AtMostOne /\ [][C16_Step]_vars

\* a pass over the Open overlay found the element of one participant and
\* created that of the other
C16_Witness ==
    /\ log.op = "participantJoined"
    /\ OverlayOpen
    /\ log.reused = 1
    /\ hasVideo = {"A", "B"}
    /\ \A p \in ParticipantIds : overlayDoc[aotWindow].videos[p] = 1

(***************************************************************************)
(* Initialisation of the overlay window                                    *)
(***************************************************************************)
\* C17, as stated: _setupAlwaysOnTopWindow has not run on a window that is
\* still loading, and it has run at most once on any window
C17_AsStated ==
    \A w \in 1..MaxWindows :
        /\ windows[w].setup <= 1
        /\ windows[w].setup > 0 => ~windows[w].loading

\* C18, as stated: a recorded browser-window handle is the handle of the
\* window the current open request created
C18_AsStated ==
    aotBW # NoWindow => aotBW = aotWindow

(***************************************************************************)
(* The channel handler and the two references                              *)
(***************************************************************************)
\* C19: the handler of 'jitsi-always-on-top' is registered exactly once while
\* an overlay window is referenced (open pending or Open) and not at all while
\* the Coordinator is Closed, whatever opens and closes came before
C19_OneChannelHandler ==
    ipcL = IF aotWindow # NoWindow THEN 1 ELSE 0

\* a second open, after a close, has registered the handler once
C19_Witness ==
    /\ log.op \in OpenOps
    /\ log.created
    /\ nextId = 2
    /\ ipcL = 1

\* a recorded handle comes with an overlay window reference
C20_HandleHasWindow ==
    aotBW # NoWindow => aotWindow # NoWindow

\* a close request clears both references: with a live handle, with a
\* destroyed handle, with no handle received, and with no overlay at all
C20_Step ==
    (log'.op \in CloseOps /\ log'.shouldClose)
       => /\ aotWindow' = NoWindow
          /\ aotBW' = NoWindow
          /\ log'.winClose <=> HandleLive /\ aotWindow # NoWindow

\* C20: a recorded browser-window handle implies an overlay window reference,
\* and after every close request both are cleared, whichever branch the close
\* took
C20_References == []C20_HandleHasWindow /\ [][C20_Step]_vars

\* a close that found a live handle called close() on the overlay window and
\* cleared both references
C20_Witness ==
    /\ log.op \in CloseOps
    /\ log.winClose
    /\ aotWindow = NoWindow
    /\ aotBW = NoWindow

====
